---- MODULE Spec2Model ----
(***************************************************************************)
(* Precision Interval Timer: the alarm evaluation engine of src/src/App.tsx *)
(* (the clock sampler, checkAlarms and getNextTrigger) and the alert        *)
(* dispatcher, class Beeper of src/unnamed/part_001 (lines 197-445), as     *)
(* state machines.                                                          *)
(*                                                                         *)
(* Time is in milliseconds since the epoch, as Date.getTime() returns it.  *)
(* The host's local time zone is taken to be UTC without daylight saving,  *)
(* so local midnight is the last multiple of a day.                        *)
(***************************************************************************)
EXTENDS Integers, Sequences, FiniteSets, TLC

VARIABLES
    clock,                \* the host's wall clock, what new Date() returns
    currentTime,          \* React state currentTime (App.tsx:32)
    alarms,               \* React state alarms (App.tsx:33), a sequence of AlarmRule
    isMuted,              \* React state isMuted (App.tsx:34)
    globalVolume,         \* React state globalVolume (App.tsx:44), in percent
    lastTriggeredSecond,  \* the ref lastTriggeredSecond.current (App.tsx:78)
    lastCall,             \* history: what the last checkAlarms call did
    evalCount,            \* history: epoch second -> number of evaluation passes
    firstSecond,          \* history: currentSecond of the first checkAlarms call
    monotone,             \* history: no call got a timestamp below its predecessor's
    backJumps,            \* history: number of backward clock adjustments so far
    alarmTriggered        \* messages the renderer sent on the channel 'alarm-triggered'

VARIABLES
    newType,              \* React state newType (App.tsx:38), the form's rule type
    newInterval,          \* React state newInterval (App.tsx:39), the cycle in minutes
    newMarkMins,          \* React state newMarkMins (App.tsx:40)
    newMarkSecs           \* React state newMarkSecs (App.tsx:41)

formVars == <<newType, newInterval, newMarkMins, newMarkSecs>>

appVars == <<clock, currentTime, alarms, isMuted, globalVolume, lastTriggeredSecond,
             lastCall, evalCount, firstSecond, monotone, backJumps, alarmTriggered,
             newType, newInterval, newMarkMins, newMarkSecs>>

VARIABLES
    audioCtx,             \* Beeper.audioCtx: 0 for null, else the number of the AudioContext
    keepaliveSrc,         \* Beeper.keepaliveSrc: 0 for null, else the context of the oscillator
    keepalives,           \* platform: contexts with a keepalive oscillator started, not stopped
    currentUtterance,     \* Beeper.currentUtterance: Undefined for null
    lastSpeakCallTime,    \* Beeper.lastSpeakCallTime
    listening,            \* the click/keydown listener onFirstInteraction is registered
    ctxState,             \* platform: AudioContext.state of each context constructed so far
    resumePending,        \* platform: contexts with an unsettled resume() promise
    nodes,                \* platform: the oscillators started, with their gain chain
    timers,               \* platform: pending setTimeout callbacks
    dateNow,              \* platform: Date.now()
    speechAvailable,      \* platform: 'speechSynthesis' in window
    engineQueue,          \* platform: utterances the speech engine holds (speaking iff non-empty)
    submitted,            \* history: the speechSynthesis.speak calls
    requests              \* history: the Beeper.play calls

beeperVars == <<audioCtx, keepaliveSrc, keepalives, currentUtterance, lastSpeakCallTime, listening,
                ctxState, resumePending, nodes, timers, dateNow, speechAvailable,
                engineQueue, submitted, requests>>

vars == <<appVars, beeperVars>>

----------------------------------------------------------------------------
(* Bounds of the model *)

\* Seconds of wall-clock time the scheduler run covers.
MaxElapsedSec == 5

\* Backward adjustments of the system clock in one run.
MaxBackJumps == 1

\* The catch-up window of spec section 4.2 ("e.g. 10 seconds"), scaled down.
\* The source has no such constant.
CatchUpWindow == 3

\* Last second-of-day of the walk of the trigger evaluator.
MaxWalkSec == 700

\* Test beeps requested while the rule list is edited.
MaxTestBeeps == 1

\* Rules added while the form is edited.
MaxFormRules == 1

\* Seconds of wall-clock time covered while alerts are handed to the Beeper.
MaxDispatchSec == 2

\* Seconds of wall-clock time covered while the rule list is edited.
MaxEditSec == 3

----------------------------------------------------------------------------
(* JavaScript values *)

\* An optional field (markSeconds?: number) is <<>> when absent, <<n>> when set.
Undefined == <<>>

Defined(n) == <<n>>

DayMs == 24 * 60 * 60 * 1000

\* midnight = new Date(now); midnight.setHours(0, 0, 0, 0)
Midnight(now) == now - (now % DayMs)

\* Math.floor((now.getTime() - midnight.getTime()) / 1000)
SecondsSinceMidnight(now) == (now - Midnight(now)) \div 1000

\* Math.floor(now.getTime() / 1000)
CurrentSecond(now) == now \div 1000

\* a % b for a >= 0 and b # 0: the sign of the result is the dividend's, so a
\* negative b acts as -b. (a % 0 is NaN; the callers test b = 0 first.)
JsMod(a, b) == a % (IF b < 0 THEN -b ELSE b)

\* useState('interval'), useState(5), useState(4), useState(0)
FormDefaults ==
    /\ newType = "interval"
    /\ newInterval = 5
    /\ newMarkMins = 4
    /\ newMarkSecs = 0

----------------------------------------------------------------------------
(* Rules *)

Rule(id, type, mins, mark, sound) ==
    [id |-> id, type |-> type, intervalMinutes |-> mins, markSeconds |-> mark,
     enabled |-> TRUE, sound |-> sound]

\* const intervalSeconds = alarm.intervalMinutes * 60
IntervalSeconds(alarm) == alarm.intervalMinutes * 60

MarkSecondsOfAbsentIsCycleEnd(alarm) ==
    IF alarm.markSeconds = Undefined
    THEN IntervalSeconds(alarm)
    ELSE alarm.markSeconds[1]

\* const markSeconds = alarm.markSeconds || 0
MarkSecondsOf(alarm) ==
    IF alarm.markSeconds = Undefined THEN 0 ELSE alarm.markSeconds[1]

IntervalTriggeredOffByOne(alarm, secondsSinceMidnight) ==
    /\ IntervalSeconds(alarm) # 0
    /\ JsMod(secondsSinceMidnight, IntervalSeconds(alarm)) = 1

\* if (secondsSinceMidnight % intervalSeconds === 0) triggered = true
\* (NaN === 0 is false)
IntervalTriggered(alarm, secondsSinceMidnight) ==
    /\ IntervalSeconds(alarm) # 0
    /\ JsMod(secondsSinceMidnight, IntervalSeconds(alarm)) = 0

\* if (secondsSinceMidnight % intervalSeconds === markSeconds) triggered = true
MarkTriggered(alarm, secondsSinceMidnight) ==
    /\ IntervalSeconds(alarm) # 0
    /\ JsMod(secondsSinceMidnight, IntervalSeconds(alarm)) = MarkSecondsOf(alarm)

\* The value of `triggered` after the if / else if of checkAlarms.
Triggered(alarm, secondsSinceMidnight) ==
    CASE alarm.type = "interval" -> IntervalTriggered(alarm, secondsSinceMidnight)
      [] alarm.type = "mark" -> MarkTriggered(alarm, secondsSinceMidnight)
      [] OTHER -> FALSE

SkippedNever(alarm) == FALSE

\* if (!alarm.enabled) return
Skipped(alarm) == ~alarm.enabled

\* The indexes of the rules the forEach of checkAlarms finds triggered at a
\* second, those it skips left out.
TriggeredRules(rules, secondsSinceMidnight) ==
    {i \in DOMAIN rules :
        ~Skipped(rules[i]) /\ Triggered(rules[i], secondsSinceMidnight)}

PlayedFromFirstOnly(i, rules, secondsSinceMidnight, muted, volume) ==
    LET due == {j \in TriggeredRules(rules, secondsSinceMidnight) : j >= i}
        first == CHOOSE j \in due : \A k \in due : j <= k
    IN  IF due = {} \/ muted
        THEN <<>>
        ELSE <<[rule |-> first, sound |-> rules[first].sound, volume |-> volume]>>

RECURSIVE PlayedFromReversed(_, _, _, _, _)
PlayedFromReversed(i, rules, secondsSinceMidnight, muted, volume) ==
    IF i > Len(rules)
    THEN <<>>
    ELSE PlayedFromReversed(i + 1, rules, secondsSinceMidnight, muted, volume)
         \o (IF i \in TriggeredRules(rules, secondsSinceMidnight) /\ ~muted
             THEN <<[rule |-> i, sound |-> rules[i].sound, volume |-> volume]>>
             ELSE <<>>)

RECURSIVE PlayedFromThoughMuted(_, _, _, _, _)
PlayedFromThoughMuted(i, rules, secondsSinceMidnight, muted, volume) ==
    IF i > Len(rules)
    THEN <<>>
    ELSE (IF i \in TriggeredRules(rules, secondsSinceMidnight)
          THEN <<[rule |-> i, sound |-> rules[i].sound, volume |-> volume]>>
          ELSE <<>>)
         \o PlayedFromThoughMuted(i + 1, rules, secondsSinceMidnight, muted, volume)

RECURSIVE PlayedFrom(_, _, _, _, _)
\* The beeper.play(alarm.sound, globalVolume) calls of the forEach, in order.
PlayedFrom(i, rules, secondsSinceMidnight, muted, volume) ==
    IF i > Len(rules)
    THEN <<>>
    ELSE (IF i \in TriggeredRules(rules, secondsSinceMidnight) /\ ~muted
          THEN <<[rule |-> i, sound |-> rules[i].sound, volume |-> volume]>>
          ELSE <<>>)
         \o PlayedFrom(i + 1, rules, secondsSinceMidnight, muted, volume)

----------------------------------------------------------------------------
(* getNextTrigger: the countdown shown beside a rule *)

\* secondsToWait of an interval rule (intervalSeconds # 0).
IntervalSecondsToWait(alarm, secondsSinceMidnight) ==
    LET intervalSeconds == IntervalSeconds(alarm)
        secondsToWait ==
            intervalSeconds - JsMod(secondsSinceMidnight, intervalSeconds)
    IN  IF secondsToWait = intervalSeconds THEN 0 ELSE secondsToWait

\* secondsToWait of any other rule (intervalSeconds # 0).
MarkSecondsToWait(alarm, secondsSinceMidnight) ==
    LET intervalSeconds == IntervalSeconds(alarm)
        markSeconds == MarkSecondsOf(alarm)
        currentPosInCycle == JsMod(secondsSinceMidnight, intervalSeconds)
    IN  IF currentPosInCycle < markSeconds
        THEN markSeconds - currentPosInCycle
        ELSE (intervalSeconds - currentPosInCycle) + markSeconds

\* secondsToWait before the "NOW" test (intervalSeconds # 0).
SecondsToWait(alarm, secondsSinceMidnight) ==
    IF alarm.type = "interval"
    THEN IntervalSecondsToWait(alarm, secondsSinceMidnight)
    ELSE MarkSecondsToWait(alarm, secondsSinceMidnight)

\* The string getNextTrigger returns, as its parts. With intervalSeconds = 0
\* every number in it is NaN.
GetNextTrigger(alarm) ==
    IF IntervalSeconds(alarm) = 0
    THEN [text |-> "NaN:NaN"]
    ELSE LET secondsToWait ==
                 SecondsToWait(alarm, SecondsSinceMidnight(currentTime))
         IN  IF secondsToWait = 0
             THEN [text |-> "NOW"]
             ELSE [text |-> "m:ss", mins |-> secondsToWait \div 60,
                   secs |-> secondsToWait % 60]

\* {alarm.enabled ? getNextTrigger(alarm) : '--:--'}
NextCell(alarm) ==
    IF alarm.enabled THEN GetNextTrigger(alarm) ELSE [text |-> "--:--"]

----------------------------------------------------------------------------
(* checkAlarms *)

SameSecondNever(currentSecond) == FALSE

SameSecondOrMuted(currentSecond) == currentSecond = lastTriggeredSecond \/ isMuted

SameSecondOrEarlier(currentSecond) == currentSecond <= lastTriggeredSecond

\* if (currentSecond === lastTriggeredSecond.current) return
SameSecond(currentSecond) == currentSecond = lastTriggeredSecond

EvaluatedSecondsCatchUp(previous, currentSecond) ==
    LET oldest == currentSecond - CatchUpWindow + 1
    IN  (IF previous + 1 > oldest THEN previous + 1 ELSE oldest) .. currentSecond

\* The seconds one call that passes the guard runs the forEach for: the
\* current one alone, whatever the cursor was.
EvaluatedSeconds(previous, currentSecond) == {currentSecond}

NoCall == [ran |-> FALSE, currentSecond |-> 0 - 1, previous |-> 0 - 1,
           secondsSinceMidnight |-> 0 - 1, evaluated |-> {}, triggered |-> {},
           played |-> <<>>]

Counted(s) == IF s \in DOMAIN evalCount THEN evalCount[s] ELSE 0

CheckAlarms(now) ==
    LET currentSecond == CurrentSecond(now)
        secondsSinceMidnight == SecondsSinceMidnight(now)
        evaluated == EvaluatedSeconds(lastTriggeredSecond, currentSecond)
        call == [ran |-> TRUE, currentSecond |-> currentSecond,
                 previous |-> lastTriggeredSecond,
                 secondsSinceMidnight |-> secondsSinceMidnight,
                 evaluated |-> evaluated,
                 triggered |-> TriggeredRules(alarms, secondsSinceMidnight),
                 played |-> PlayedFrom(1, alarms, secondsSinceMidnight,
                                       isMuted, globalVolume)]
    IN  IF SameSecond(currentSecond)
        THEN /\ lastCall' = [NoCall EXCEPT !.currentSecond = currentSecond,
                                           !.previous = lastTriggeredSecond]
             /\ UNCHANGED <<lastTriggeredSecond, evalCount>>
        ELSE /\ lastTriggeredSecond' = currentSecond
             /\ lastCall' = call
             /\ evalCount' = [s \in DOMAIN evalCount \cup evaluated |->
                                 Counted(s) + (IF s \in evaluated THEN 1 ELSE 0)]

----------------------------------------------------------------------------
(* class Beeper: the alert dispatcher *)

(* Volumes are in percent, frequencies in hundredths of a hertz, durations
   and delays in milliseconds. The scheduler above records the play calls it
   makes (lastCall.played); what a call does to the Beeper and to the
   platform's audio and speech state is modelled here. The voice chosen for
   an utterance (lines 410-420) branches nothing and is left out. *)

\* AudioContexts the platform constructs in one run.
MaxContexts == 2

\* Beeper.play calls for a tone in one run.
MaxRequests == 2

\* Beeper.play calls for speech in one run.
MaxSpeechRequests == 3

\* Pauses of the stuck threshold's length, or longer, in one run.
MaxPauses == 2

\* if (window.speechSynthesis.speaking && timeSinceLastCall > 12000)
StuckThresholdMs == 12000

\* setTimeout(() => window.speechSynthesis.speak(this.currentUtterance!), 50)
RetryDelayMs == 50

Tone(freq, duration, type, volume, delay) ==
    [freq |-> freq, duration |-> duration, type |-> type, volume |-> volume,
     delay |-> delay]

\* beep(freq, duration, type, gainNode, volume = 0.1)
DefaultBeepVolume == 10

\* The beep calls of play's switch, each with the delay of its setTimeout
\* (0 for a call made by play itself).
Segments(preset) ==
    CASE preset = "ding" ->
           <<Tone(150000, 500, "sine", 20, 0), Tone(220000, 300, "sine", 10, 0)>>
      [] preset = "alarm" ->
           <<Tone(66000, 100, "sawtooth", 15, 0),
             Tone(88000, 100, "sawtooth", 15, 150),
             Tone(66000, 100, "sawtooth", 15, 300)>>
      [] preset = "high" -> <<Tone(88000 * 2, 100, "sine", DefaultBeepVolume, 0)>>
      [] preset = "low" -> <<Tone(44000, 200, "sine", DefaultBeepVolume, 0)>>
      [] preset = "pulse" ->
           <<Tone(88000, 50, "square", DefaultBeepVolume, 0),
             Tone(88000, 50, "square", DefaultBeepVolume, 100)>>
      [] preset = "digital" -> <<Tone(120000, 150, "triangle", DefaultBeepVolume, 0)>>
      [] preset = "chime" ->
           <<Tone(104650, 400, "sine", 20, 0), Tone(131851, 600, "sine", 20, 200)>>
      [] preset = "buzzer" ->
           <<Tone(15000, 300, "sawtooth", 30, 0), Tone(15000, 400, "sawtooth", 30, 350)>>
      [] preset = "sonar" -> <<Tone(120000, 1500, "sine", 30, 0)>>
      [] OTHER -> <<Tone(88000, 150, "square", DefaultBeepVolume, 0)>>

\* this.beep(440, 0.01, 'sine', silentGain, 0), the wake-up tone of speak
SilentTone == Tone(44000, 10, "sine", 0, 0)

\* Math.min(1.0, volume * 2.0)
EffectiveVolume(volume) == IF volume * 2 > 100 THEN 100 ELSE volume * 2

\* The Beeper's fields and the platform state its methods act on.
World ==
    [audioCtx |-> audioCtx, keepaliveSrc |-> keepaliveSrc, keepalives |-> keepalives,
     currentUtterance |-> currentUtterance, lastSpeakCallTime |-> lastSpeakCallTime,
     ctxState |-> ctxState, resumePending |-> resumePending, nodes |-> nodes,
     timers |-> timers, engineQueue |-> engineQueue,
     submitted |-> submitted, threw |-> FALSE, cancelled |-> FALSE,
     keepaliveAfter |-> 0 - 1]

\* this.audioCtx.state, "none" when this.audioCtx is null
StateOf(w) == IF w.audioCtx = 0 THEN "none" ELSE w.ctxState[w.audioCtx]

StopKeepaliveClearsHandleOnly(w) == [w EXCEPT !.keepaliveSrc = 0]

\* stopKeepalive(): this.keepaliveSrc?.stop(), ?.disconnect(), then null
StopKeepalive(w) ==
    [w EXCEPT !.keepalives = @ \ {w.keepaliveSrc}, !.keepaliveSrc = 0]

StartKeepaliveNever(w) == w

StartKeepaliveAnyState(w) ==
    IF w.audioCtx = 0 \/ w.keepaliveSrc # 0 \/ StateOf(w) = "closed"
    THEN w
    ELSE [w EXCEPT !.keepaliveSrc = w.audioCtx,
                   !.keepalives = @ \cup {w.audioCtx},
                   !.keepaliveAfter = Cardinality(w.nodes)]

\* startKeepalive(): an oscillator through a gain of 0.0001 to the destination.
\* keepaliveAfter is the number of oscillators started before it.
StartKeepalive(w) ==
    IF w.audioCtx = 0 \/ w.keepaliveSrc # 0 \/ StateOf(w) # "running"
    THEN w
    ELSE [w EXCEPT !.keepaliveSrc = w.audioCtx,
                   !.keepalives = @ \cup {w.audioCtx},
                   !.keepaliveAfter = Cardinality(w.nodes)]

StaleIfAbsent(w) == w.audioCtx = 0

\* init's condition: if (!this.audioCtx || this.audioCtx.state === 'closed')
Stale(w) == w.audioCtx = 0 \/ StateOf(w) = "closed"

\* init(). `constructed` is what new AudioContext() does if it is called:
\* it returns a context that is "running" or "suspended", or it "throws".
InitContext(w, constructed) ==
    LET stale == Stale(w)
        w1 == IF ~stale THEN w
              ELSE IF constructed = "throws"
                   THEN [StopKeepalive(w) EXCEPT !.threw = TRUE]
                   ELSE [StopKeepalive(w) EXCEPT
                            !.ctxState = Append(@, constructed),
                            !.audioCtx = Len(w.ctxState) + 1]
    IN  IF ~w1.threw /\ StateOf(w1) = "suspended"
        THEN [w1 EXCEPT !.resumePending = @ \cup {w1.audioCtx}]
        ELSE w1

\* beep(): one oscillator, started on this.audioCtx through gain node `gain`
\* whose value is `gainValue`. ctxWas is the state of this.audioCtx then.
Beep(w, req, k, tone, gain, gainValue) ==
    IF w.audioCtx = 0 THEN w
    ELSE [w EXCEPT !.nodes = @ \cup
            {[req |-> req, k |-> k, ctxWas |-> StateOf(w),
              gain |-> gain, gainValue |-> gainValue, freq |-> tone.freq,
              duration |-> tone.duration, type |-> tone.type,
              volume |-> tone.volume, delay |-> tone.delay]}]

RECURSIVE BeepAll(_, _, _, _, _, _)
\* The beep calls play makes itself, for the segments from k on.
BeepAll(w, req, k, tones, gain, gainValue) ==
    IF k > Len(tones) THEN w
    ELSE BeepAll(IF tones[k].delay = 0
                 THEN Beep(w, req, k, tones[k], gain, gainValue) ELSE w,
                 req, k + 1, tones, gain, gainValue)

UsableUnlessClosed(w) == w.audioCtx # 0 /\ StateOf(w) # "closed"

\* play's guard: if (!this.audioCtx || this.audioCtx.state !== 'running') return
Usable(w) == w.audioCtx # 0 /\ StateOf(w) = "running"

\* makeGain's guard: if (!this.audioCtx || this.audioCtx.state === 'closed') return null
Discarded(w) == w.audioCtx = 0 \/ StateOf(w) = "closed"

NewGainShared(req, k) == <<0, 0>>

\* this.audioCtx.createGain() of makeGain: a new gain node on every call,
\* named by the call that made it: play call req, for its segment k (1 for
\* the call play makes itself, 0 for the silent gain of speak).
NewGain(req, k) == <<req, k>>

SegmentTimersFullVolume(req, preset, volume) ==
    {[kind |-> "segment", due |-> dateNow + Segments(preset)[k].delay, req |-> req,
      k |-> k, preset |-> preset, volume |-> 100] :
        k \in {j \in DOMAIN Segments(preset) : Segments(preset)[j].delay > 0}}

\* The setTimeout callbacks play registers for the delayed segments; their
\* closure holds play's globalVolume.
SegmentTimers(req, preset, volume) ==
    {[kind |-> "segment", due |-> dateNow + Segments(preset)[k].delay, req |-> req,
      k |-> k, preset |-> preset, volume |-> volume] :
        k \in {j \in DOMAIN Segments(preset) : Segments(preset)[j].delay > 0}}

\* play() for a preset other than 'voice'
PlayTonal(w, req, preset, volume, constructed) ==
    LET w1 == InitContext(w, constructed)
        gainNode == NewGain(req, 1)
        w2 == BeepAll(w1, req, 1, Segments(preset), gainNode, volume)
        w3 == [w2 EXCEPT !.timers = @ \cup SegmentTimers(req, preset, volume)]
    IN  IF w1.threw \/ ~Usable(w1) \/ Discarded(w1)
        THEN w1
        ELSE StartKeepalive(w3)

StuckWheneverSpeaking(speaking, timeSinceLastCall) == speaking

\* window.speechSynthesis.speaking && timeSinceLastCall > 12000
Stuck(speaking, timeSinceLastCall) ==
    speaking /\ timeSinceLastCall > StuckThresholdMs

FallbackPresetClassic == "classic"

\* this.play('ding', volume), when 'speechSynthesis' is not in window
FallbackPreset == "ding"

\* speak()
Speak(w, req, text, volume, constructed) ==
    LET w1 == InitContext(w, constructed)
        w2 == IF w1.audioCtx # 0
              THEN Beep(w1, req, 0, SilentTone, NewGain(req, 0), 0)
              ELSE w1
        utterance == [req |-> req, text |-> text,
                      volume |-> EffectiveVolume(volume), lang |-> "en-US"]
        timeSinceLastCall == dateNow - w.lastSpeakCallTime
        w3 == [w2 EXCEPT !.currentUtterance = Defined(utterance),
                         !.lastSpeakCallTime = dateNow]
        w4 == IF Stuck(w3.engineQueue # <<>>, timeSinceLastCall)
              THEN [w3 EXCEPT !.engineQueue = <<>>,
                              !.cancelled = TRUE,
                              !.timers = @ \cup
                                  {[kind |-> "retry", due |-> dateNow + RetryDelayMs,
                                    req |-> req, k |-> 0, preset |-> "voice",
                                    volume |-> volume]}]
              ELSE [w3 EXCEPT !.engineQueue = Append(@, utterance),
                              !.submitted = Append(@, [utterance |-> utterance,
                                                       retryOf |-> 0,
                                                       at |-> dateNow])]
    IN  IF ~speechAvailable
        THEN PlayTonal(w, req, FallbackPreset, volume, constructed)
        ELSE IF w1.threw THEN w1 ELSE StartKeepalive(w4)

\* The state after `new Beeper()`, before any interaction.
BeeperConstructed(speech) ==
    /\ audioCtx = 0
    /\ keepaliveSrc = 0
    /\ keepalives = {}
    /\ currentUtterance = Undefined
    /\ lastSpeakCallTime = 0
    /\ listening = TRUE
    /\ ctxState = <<>>
    /\ resumePending = {}
    /\ nodes = {}
    /\ timers = {}
    /\ dateNow = 1000 * StuckThresholdMs
    /\ speechAvailable = speech
    /\ engineQueue = <<>>
    /\ submitted = <<>>
    /\ requests = <<>>

\* The methods' effect on the fields and the platform.
Becomes(w) ==
    /\ audioCtx' = w.audioCtx
    /\ keepaliveSrc' = w.keepaliveSrc
    /\ keepalives' = w.keepalives
    /\ currentUtterance' = w.currentUtterance
    /\ lastSpeakCallTime' = w.lastSpeakCallTime
    /\ ctxState' = w.ctxState
    /\ resumePending' = w.resumePending
    /\ nodes' = w.nodes
    /\ timers' = w.timers
    /\ engineQueue' = w.engineQueue
    /\ submitted' = w.submitted

\* new AudioContext() would be called by init().
Constructs == audioCtx = 0 \/ ctxState[audioCtx] = "closed"

\* beeper.play(preset, volume), as checkAlarms and testBeep call it.
Play(preset, volume, constructed) ==
    LET req == Len(requests) + 1
        w == IF preset = "voice"
             THEN Speak(World, req, "Voice alert", volume, constructed)
             ELSE PlayTonal(World, req, preset, volume, constructed)
    IN  /\ Constructs => Len(ctxState) < MaxContexts
        /\ Becomes(w)
        /\ requests' = Append(requests,
               [preset |-> preset, volume |-> volume,
                device |-> IF w.threw THEN "none" ELSE StateOf(w),
                threw |-> w.threw, cancelled |-> w.cancelled])
        /\ UNCHANGED <<listening, dateNow, speechAvailable>>
        /\ UNCHANGED appVars

\* The pending callback the platform runs next: the earliest due, the
\* earliest registered among equals.
Before(t, u) ==
    \/ t.due < u.due
    \/ t.due = u.due /\ t.req < u.req
    \/ t.due = u.due /\ t.req = u.req /\ t.k < u.k

\* A setTimeout callback of play: const g = makeGain(); if (g) this.beep(...)
DelayedSegment(t) ==
    LET g == NewGain(t.req, t.k)
    IN  /\ t \in timers /\ t.kind = "segment" /\ t.due <= dateNow
        /\ \A u \in timers : ~Before(u, t)
        /\ Becomes(IF Discarded(World)
                   THEN [World EXCEPT !.timers = @ \ {t}]
                   ELSE Beep([World EXCEPT !.timers = @ \ {t}],
                             t.req, t.k, Segments(t.preset)[t.k], g, t.volume))
        /\ UNCHANGED <<listening, dateNow, speechAvailable, requests>>
        /\ UNCHANGED appVars

\* The setTimeout callback of speak: speechSynthesis.speak(this.currentUtterance!)
RetrySpeak(t) ==
    /\ t \in timers /\ t.kind = "retry" /\ t.due <= dateNow
    /\ \A u \in timers : ~Before(u, t)
    /\ Becomes([World EXCEPT
                   !.timers = @ \ {t},
                   !.engineQueue = Append(@, currentUtterance[1]),
                   !.submitted = Append(@, [utterance |-> currentUtterance[1],
                                            retryOf |-> t.req,
                                            at |-> dateNow])])
    /\ UNCHANGED <<listening, dateNow, speechAvailable, requests>>
    /\ UNCHANGED appVars

\* onFirstInteraction: init(); startKeepalive(); remove the listeners
OnFirstInteraction(constructed) ==
    LET w == InitContext(World, constructed)
    IN  /\ listening
        /\ Constructs => Len(ctxState) < MaxContexts
        /\ Becomes(IF w.threw THEN w ELSE StartKeepalive(w))
        /\ listening' = w.threw
        /\ UNCHANGED <<dateNow, speechAvailable, requests>>
        /\ UNCHANGED appVars

\* The visibilitychange listener, the document being visible:
\* if (this.audioCtx?.state === 'suspended') this.audioCtx.resume().then(...)
OnVisible ==
    /\ audioCtx # 0
    /\ ctxState[audioCtx] = "suspended"
    /\ audioCtx \notin resumePending
    /\ resumePending' = resumePending \cup {audioCtx}
    /\ UNCHANGED <<audioCtx, keepaliveSrc, keepalives, currentUtterance, lastSpeakCallTime,
                   listening, ctxState, nodes, timers, dateNow, speechAvailable,
                   engineQueue, submitted, requests>>
    /\ UNCHANGED appVars

\* A resume() promise of context c resolves: the context runs, and the
\* callback () => this.startKeepalive() is called.
ResumeResolves(c) ==
    /\ c \in resumePending
    /\ ctxState[c] # "closed"
    /\ Becomes(StartKeepalive([World EXCEPT !.ctxState[c] = "running",
                                            !.resumePending = @ \ {c}]))
    /\ UNCHANGED <<listening, dateNow, speechAvailable, requests>>
    /\ UNCHANGED appVars

\* The platform suspends a running context (the tab in the background).
Suspend(c) ==
    /\ c \in DOMAIN ctxState
    /\ ctxState[c] = "running"
    /\ ctxState' = [ctxState EXCEPT ![c] = "suspended"]
    /\ UNCHANGED <<audioCtx, keepaliveSrc, keepalives, currentUtterance, lastSpeakCallTime,
                   listening, resumePending, nodes, timers, dateNow,
                   speechAvailable, engineQueue, submitted, requests>>
    /\ UNCHANGED appVars

\* The platform closes a context; its resume() promises are rejected.
Close(c) ==
    /\ c \in DOMAIN ctxState
    /\ ctxState[c] # "closed"
    /\ ctxState' = [ctxState EXCEPT ![c] = "closed"]
    /\ resumePending' = resumePending \ {c}
    /\ UNCHANGED <<audioCtx, keepaliveSrc, keepalives, currentUtterance, lastSpeakCallTime,
                   listening, nodes, timers, dateNow, speechAvailable,
                   engineQueue, submitted, requests>>
    /\ UNCHANGED appVars

\* The speech engine finishes the utterance it is speaking.
UtteranceEnds ==
    /\ engineQueue # <<>>
    /\ engineQueue' = Tail(engineQueue)
    /\ UNCHANGED <<audioCtx, keepaliveSrc, keepalives, currentUtterance, lastSpeakCallTime,
                   listening, ctxState, resumePending, nodes, timers, dateNow,
                   speechAvailable, submitted, requests>>
    /\ UNCHANGED appVars

\* Time passes.
Advance(to) ==
    /\ to > dateNow
    /\ dateNow' = to
    /\ UNCHANGED <<audioCtx, keepaliveSrc, keepalives, currentUtterance, lastSpeakCallTime,
                   listening, ctxState, resumePending, nodes, timers,
                   speechAvailable, engineQueue, submitted, requests>>
    /\ UNCHANGED appVars

----------------------------------------------------------------------------
(* The dispatcher under requests for tones while the platform suspends,
   resumes and closes the device *)

\* The presets requested: two tones at once, and three tones of which the
\* second and the third are delayed.
Presets == {"ding", "alarm"}

RequestVolumes == {40, 80}

\* The volumes of the requests for tones: the slider at 0 and at 0.8.
ToneVolumes == {0, 80}

Constructions == {"running", "suspended", "throws"}

AppIdle ==
    /\ clock = DayMs
    /\ currentTime = DayMs
    /\ alarms = <<>>
    /\ isMuted = FALSE
    /\ globalVolume = 100
    /\ lastTriggeredSecond = 0 - 1
    /\ lastCall = NoCall
    /\ evalCount = <<>>
    /\ firstSecond = 0 - 1
    /\ monotone = TRUE
    /\ backJumps = 0
    /\ alarmTriggered = 0
    /\ FormDefaults

BeeperInit == AppIdle /\ BeeperConstructed(TRUE)

BeeperNext ==
    \/ /\ Len(requests) < MaxRequests
       /\ \E preset \in Presets, volume \in ToneVolumes, c \in Constructions :
             Play(preset, volume, c)
    \/ \E t \in timers : DelayedSegment(t)
    \/ \E c \in Constructions : OnFirstInteraction(c)
    \/ OnVisible
    \/ \E c \in resumePending : ResumeResolves(c)
    \/ \E c \in DOMAIN ctxState : Suspend(c)
    \/ \E c \in DOMAIN ctxState : Close(c)
    \/ \E t \in timers : Advance(t.due)

BeeperSpec == BeeperInit /\ [][BeeperNext]_vars

----------------------------------------------------------------------------
(* The dispatcher under requests for speech, with a speech engine that may
   hang *)

\* Pauses between events, besides the wait for the next callback due: just
\* below the threshold, the threshold, just above it.
Pauses == {StuckThresholdMs - 1, StuckThresholdMs, StuckThresholdMs + 1}

SpeechConstructions == {"running", "suspended"}

SpeechInit == AppIdle /\ \E speech \in BOOLEAN : BeeperConstructed(speech)

SpeechNext ==
    \/ /\ Len(requests) < MaxSpeechRequests
       /\ \E volume \in RequestVolumes, c \in SpeechConstructions :
             Play("voice", volume, c)
    \/ \E t \in timers : RetrySpeak(t)
    \/ \E c \in resumePending : ResumeResolves(c)
    \/ UtteranceEnds
    \/ \E t \in timers : Advance(t.due)
    \/ /\ dateNow + StuckThresholdMs <= 1000 * StuckThresholdMs + MaxPauses * StuckThresholdMs
       /\ \E d \in Pauses : Advance(dateNow + d)

SpeechSpec == SpeechInit /\ [][SpeechNext]_vars

----------------------------------------------------------------------------
(* Operations *)

\* checkAlarms has been called.
Called == firstSecond >= 0

\* The setInterval callback: now = new Date(); setCurrentTime(now);
\* checkAlarms(now). It runs `delay` ms after the clock value of the state.
Tick(delay) ==
    /\ clock' = clock + delay
    /\ currentTime' = clock'
    /\ CheckAlarms(clock')
    /\ firstSecond' = IF Called THEN firstSecond ELSE CurrentSecond(clock')
    /\ monotone' = monotone
    /\ UNCHANGED <<alarms, isMuted, globalVolume, backJumps, alarmTriggered>>
    /\ UNCHANGED beeperVars
    /\ UNCHANGED formVars

\* The callback runs after the system clock was set back: its timestamp is
\* `by` ms below the clock value of the state.
TickAfterSetBack(by) ==
    /\ backJumps < MaxBackJumps
    /\ Called
    /\ clock' = clock - by
    /\ currentTime' = clock'
    /\ CheckAlarms(clock')
    /\ monotone' = FALSE
    /\ backJumps' = backJumps + 1
    /\ UNCHANGED <<alarms, isMuted, globalVolume, firstSecond, alarmTriggered>>
    /\ UNCHANGED beeperVars
    /\ UNCHANGED formVars

\* toggleAlarm(id)
ToggleAlarm(id) ==
    /\ alarms' = [i \in DOMAIN alarms |->
                     IF alarms[i].id = id
                     THEN [alarms[i] EXCEPT !.enabled = ~alarms[i].enabled]
                     ELSE alarms[i]]
    /\ UNCHANGED <<clock, currentTime, isMuted, globalVolume, lastTriggeredSecond,
                   lastCall, evalCount, firstSecond, monotone, backJumps,
                   alarmTriggered>>
    /\ UNCHANGED beeperVars
    /\ UNCHANGED formVars

\* The mute button: setIsMuted(!isMuted)
ToggleMute ==
    /\ isMuted' = ~isMuted
    /\ UNCHANGED <<clock, currentTime, alarms, globalVolume, lastTriggeredSecond,
                   lastCall, evalCount, firstSecond, monotone, backJumps,
                   alarmTriggered>>
    /\ UNCHANGED beeperVars
    /\ UNCHANGED formVars

\* The volume slider: setGlobalVolume(v); if (v > 0 && isMuted) setIsMuted(false)
SetGlobalVolume(v) ==
    /\ globalVolume' = v
    /\ isMuted' = (IF v > 0 /\ isMuted THEN FALSE ELSE isMuted)
    /\ UNCHANGED <<clock, currentTime, alarms, lastTriggeredSecond,
                   lastCall, evalCount, firstSecond, monotone, backJumps,
                   alarmTriggered>>
    /\ UNCHANGED beeperVars
    /\ UNCHANGED formVars

\* addAlarm(preset?): the new rule's fields come from the preset or, where it
\* has none, from the form; markSeconds is set for a mark rule only. The id
\* is Math.random()'s.
AddAlarm(id, type, mins, markSecs, sound) ==
    /\ \A i \in DOMAIN alarms : alarms[i].id # id
    /\ alarms' = Append(alarms,
                    Rule(id, type, mins,
                         IF type = "mark" THEN Defined(markSecs) ELSE Undefined,
                         sound))
    /\ UNCHANGED <<clock, currentTime, isMuted, globalVolume, lastTriggeredSecond,
                   lastCall, evalCount, firstSecond, monotone, backJumps,
                   alarmTriggered>>
    /\ UNCHANGED beeperVars
    /\ UNCHANGED formVars

\* removeAlarm(id): setAlarms(alarms.filter(a => a.id !== id))
RemoveAlarm(id) ==
    /\ alarms' = SelectSeq(alarms, LAMBDA a : a.id # id)
    /\ UNCHANGED <<clock, currentTime, isMuted, globalVolume, lastTriggeredSecond,
                   lastCall, evalCount, firstSecond, monotone, backJumps,
                   alarmTriggered>>
    /\ UNCHANGED beeperVars
    /\ UNCHANGED formVars

ClearAllResetsCursor(confirmed) ==
    /\ alarms' = (IF confirmed THEN <<>> ELSE alarms)
    /\ lastTriggeredSecond' = (IF confirmed THEN 0 - 1 ELSE lastTriggeredSecond)
    /\ UNCHANGED <<clock, currentTime, isMuted, globalVolume,
                   lastCall, evalCount, firstSecond, monotone, backJumps,
                   alarmTriggered>>
    /\ UNCHANGED beeperVars
    /\ UNCHANGED formVars

\* clearAll(): if (confirm(...)) setAlarms([])
ClearAll(confirmed) ==
    /\ alarms' = (IF confirmed THEN <<>> ELSE alarms)
    /\ UNCHANGED <<clock, currentTime, isMuted, globalVolume, lastTriggeredSecond,
                   lastCall, evalCount, firstSecond, monotone, backJumps,
                   alarmTriggered>>
    /\ UNCHANGED beeperVars
    /\ UNCHANGED formVars

\* One beeper.play(alarm.sound, globalVolume) of the forEach, as request
\* number Len(reqs) + 1, on the Beeper and platform w.
PlayCall(w, reqs, call, constructed) ==
    LET req == Len(reqs) + 1
        fresh == [w EXCEPT !.threw = FALSE, !.cancelled = FALSE,
                           !.keepaliveAfter = 0 - 1]
        after == IF call.sound = "voice"
                 THEN Speak(fresh, req, "Voice alert", call.volume, constructed)
                 ELSE PlayTonal(fresh, req, call.sound, call.volume, constructed)
    IN  [w |-> after,
         requests |-> Append(reqs,
             [preset |-> call.sound, volume |-> call.volume,
              device |-> IF after.threw THEN "none" ELSE StateOf(after),
              threw |-> after.threw, cancelled |-> after.cancelled])]

RECURSIVE PlayCalls(_, _, _, _)
\* The play calls of one forEach, in order. An exception of play leaves the
\* forEach, checkAlarms and the timer callback: the calls after it are not made.
PlayCalls(w, reqs, calls, constructed) ==
    IF calls = <<>>
    THEN [w |-> w, requests |-> reqs]
    ELSE LET made == PlayCall(w, reqs, Head(calls), constructed)
         IN  IF made.w.threw
             THEN made
             ELSE PlayCalls(made.w, made.requests, Tail(calls), constructed)

\* The setInterval callback, with what its beeper.play calls do to the
\* Beeper. `constructed` is what new AudioContext() does if init() calls it.
TimerCallback(delay, constructed) ==
    LET now == clock + delay
        calls == IF SameSecond(CurrentSecond(now))
                 THEN <<>>
                 ELSE PlayedFrom(1, alarms, SecondsSinceMidnight(now), isMuted,
                                 globalVolume)
        done == PlayCalls(World, requests, calls, constructed)
    IN  /\ clock' = now
        /\ currentTime' = now
        /\ CheckAlarms(now)
        /\ firstSecond' = IF Called THEN firstSecond ELSE CurrentSecond(now)
        /\ Becomes(done.w)
        /\ requests' = done.requests
        /\ UNCHANGED <<alarms, isMuted, globalVolume, monotone, backJumps,
                       alarmTriggered>>
        /\ UNCHANGED formVars
        /\ UNCHANGED <<listening, dateNow, speechAvailable>>

\* The buttons Interval and Mark of the form: setNewType(type)
SetNewType(type) ==
    /\ newType' = type
    /\ UNCHANGED <<newInterval, newMarkMins, newMarkSecs>>
    /\ UNCHANGED <<clock, currentTime, alarms, isMuted, globalVolume,
                   lastTriggeredSecond, lastCall, evalCount, firstSecond, monotone,
                   backJumps, alarmTriggered>>
    /\ UNCHANGED beeperVars

\* The cycle slider: setNewInterval(parseInt(e.target.value))
SetNewInterval(value) ==
    /\ newInterval' = value
    /\ UNCHANGED <<newType, newMarkMins, newMarkSecs>>
    /\ UNCHANGED <<clock, currentTime, alarms, isMuted, globalVolume,
                   lastTriggeredSecond, lastCall, evalCount, firstSecond, monotone,
                   backJumps, alarmTriggered>>
    /\ UNCHANGED beeperVars

\* Math.min(a, b)
MathMin(a, b) == IF a < b THEN a ELSE b

\* The minutes field of the mark, shown while newType === 'mark':
\* setNewMarkMins(Math.min(newInterval - 1, parseInt(e.target.value) || 0))
SetNewMarkMins(value) ==
    /\ newType = "mark"
    /\ newMarkMins' = MathMin(newInterval - 1, value)
    /\ UNCHANGED <<newType, newInterval, newMarkSecs>>
    /\ UNCHANGED <<clock, currentTime, alarms, isMuted, globalVolume,
                   lastTriggeredSecond, lastCall, evalCount, firstSecond, monotone,
                   backJumps, alarmTriggered>>
    /\ UNCHANGED beeperVars

\* The seconds field of the mark:
\* setNewMarkSecs(Math.min(59, parseInt(e.target.value) || 0))
SetNewMarkSecs(value) ==
    /\ newType = "mark"
    /\ newMarkSecs' = MathMin(59, value)
    /\ UNCHANGED <<newType, newInterval, newMarkMins>>
    /\ UNCHANGED <<clock, currentTime, alarms, isMuted, globalVolume,
                   lastTriggeredSecond, lastCall, evalCount, firstSecond, monotone,
                   backJumps, alarmTriggered>>
    /\ UNCHANGED beeperVars

\* The Add button: addAlarm(), every field from the form;
\* markSecs = newMarkMins * 60 + newMarkSecs
AddAlarmFromForm(id, sound) ==
    AddAlarm(id, newType, newInterval, newMarkMins * 60 + newMarkSecs, sound)

\* testBeep(sound?): beeper.play(sound || newSound, globalVolume)
TestBeep(sound, constructed) == Play(sound, globalVolume, constructed)

----------------------------------------------------------------------------
(* The scheduler under late and bursty ticks, near local midnight *)

\* Positions of the volume slider, in percent.
Volumes == {0, 100}

\* 23:59:57 of the first day.
StartMs == DayMs - 3000

EndMs == StartMs + MaxElapsedSec * 1000

\* Delays between two runs of the callback: on time within the second, one
\* second, and late by more than the catch-up window.
Delays == {500, 1000, 2000, (CatchUpWindow + 1) * 1000}

SetBacks == {1000, 3000}

RuleLists ==
    { <<Rule("a", "interval", 1, Undefined, "classic"),
        Rule("b", "mark", 1, Defined(58), "ding")>>,
      <<Rule("a", "mark", 2, Undefined, "chime"),
        Rule("b", "interval", 2, Undefined, "alarm")>> }

Init ==
    /\ clock = StartMs
    /\ currentTime = StartMs
    /\ alarms \in RuleLists
    /\ isMuted = FALSE
    /\ globalVolume = 100
    /\ lastTriggeredSecond = 0 - 1
    /\ lastCall = NoCall
    /\ evalCount = <<>>
    /\ firstSecond = 0 - 1
    /\ monotone = TRUE
    /\ backJumps = 0
    /\ alarmTriggered = 0
    /\ FormDefaults
    /\ BeeperConstructed(TRUE)

Next ==
    \/ \E delay \in Delays : clock + delay <= EndMs /\ Tick(delay)
    \/ \E by \in SetBacks : clock - by >= StartMs /\ TickAfterSetBack(by)
    \/ \E i \in DOMAIN alarms : ToggleAlarm(alarms[i].id)
    \/ ToggleMute
    \/ \E v \in Volumes : v # globalVolume /\ SetGlobalVolume(v)

Spec == Init /\ [][Next]_vars

----------------------------------------------------------------------------
(* The trigger evaluator and the countdown, second by second over a day's start *)

WalkRuleLists ==
    { <<Rule("a", "interval", 5, Undefined, "classic"),
        Rule("b", "mark", 5, Defined(240), "ding"),
        Rule("c", "mark", 2, Undefined, "chime")>>,
      <<Rule("a", "interval", 1, Undefined, "classic"),
        Rule("b", "mark", 1, Defined(58), "ding"),
        Rule("c", "mark", 2, Defined(0), "chime")>> }

\* 23:59:59, one second before the walk's first second-of-day, 0.
WalkInit ==
    /\ clock = DayMs - 1000
    /\ currentTime = clock
    /\ alarms \in WalkRuleLists
    /\ isMuted = FALSE
    /\ globalVolume = 100
    /\ lastTriggeredSecond = 0 - 1
    /\ lastCall = NoCall
    /\ evalCount = <<>>
    /\ firstSecond = 0 - 1
    /\ monotone = TRUE
    /\ backJumps = 0
    /\ alarmTriggered = 0
    /\ FormDefaults
    /\ BeeperConstructed(TRUE)

WalkNext == clock + 1000 <= DayMs + MaxWalkSec * 1000 /\ Tick(1000)

WalkSpec == WalkInit /\ [][WalkNext]_vars

----------------------------------------------------------------------------
(* The scheduler while the rule list, mute and volume are edited *)

\* Rule lists found in localStorage on mount (setAlarms(JSON.parse(saved)),
\* unvalidated): none, one rule, and rules whose cycle is zero or negative.
StoredRuleLists ==
    { <<>>,
      <<Rule("a", "interval", 1, Undefined, "classic")>>,
      <<Rule("a", "interval", 0, Undefined, "classic"),
        Rule("b", "mark", 0 - 1, Defined(58), "classic")>> }

\* Math.random().toString(36).substr(2, 9): the ids a run draws.
Ids == {"a", "b"}

\* What the form holds when Add is pressed: a mark rule, the cycle slider at
\* its least position, the mark at 59 s.
FormTypes == {"mark"}

FormMarkSecs == 59

EditDelays == {500, 1000}

\* 23:59:57.5 of the first day.
EditStartMs == DayMs - 2500

EditEndMs == EditStartMs + MaxEditSec * 1000

EditInit ==
    /\ clock = EditStartMs
    /\ currentTime = EditStartMs
    /\ alarms \in StoredRuleLists
    /\ isMuted = FALSE
    /\ globalVolume = 100
    /\ lastTriggeredSecond = 0 - 1
    /\ lastCall = NoCall
    /\ evalCount = <<>>
    /\ firstSecond = 0 - 1
    /\ monotone = TRUE
    /\ backJumps = 0
    /\ alarmTriggered = 0
    /\ FormDefaults
    /\ BeeperConstructed(TRUE)

\* The handlers other than the timer callback.
Edit ==
    \/ \E id \in Ids, type \in FormTypes :
          AddAlarm(id, type, 1, FormMarkSecs, "ding")
    \/ \E i \in DOMAIN alarms : RemoveAlarm(alarms[i].id)
    \/ \E i \in DOMAIN alarms : ToggleAlarm(alarms[i].id)
    \/ \E confirmed \in BOOLEAN : alarms # <<>> /\ ClearAll(confirmed)
    \/ ToggleMute
    \/ \E v \in Volumes : v # globalVolume /\ SetGlobalVolume(v)
    \/ Len(requests) < MaxTestBeeps /\ TestBeep("classic", "running")

EditNext ==
    \/ \E delay \in EditDelays : clock + delay <= EditEndMs /\ Tick(delay)
    \/ Edit

EditSpec == EditInit /\ [][EditNext]_vars

----------------------------------------------------------------------------
(* The scheduler handing its alerts to the Beeper *)

\* Two and three rules due together at the turn of a minute.
DispatchRuleLists ==
    { <<Rule("a", "interval", 1, Undefined, "ding"),
        Rule("b", "mark", 1, Defined(0), "classic")>>,
      <<Rule("a", "mark", 1, Undefined, "classic"),
        Rule("b", "interval", 1, Undefined, "high"),
        Rule("c", "interval", 1, Undefined, "ding")>> }

\* 23:59:58.5 of the first day.
DispatchStartMs == DayMs - 1500

DispatchEndMs == DispatchStartMs + MaxDispatchSec * 1000

DispatchInit ==
    /\ clock = DispatchStartMs
    /\ currentTime = DispatchStartMs
    /\ alarms \in DispatchRuleLists
    /\ isMuted = FALSE
    /\ globalVolume = 100
    /\ lastTriggeredSecond = 0 - 1
    /\ lastCall = NoCall
    /\ evalCount = <<>>
    /\ firstSecond = 0 - 1
    /\ monotone = TRUE
    /\ backJumps = 0
    /\ alarmTriggered = 0
    /\ FormDefaults
    /\ BeeperConstructed(TRUE)

DispatchNext ==
    \/ \E delay \in EditDelays, c \in Constructions :
          /\ clock + delay <= DispatchEndMs
          /\ Constructs => Len(ctxState) < MaxContexts
          /\ TimerCallback(delay, c)
    \/ ToggleMute
    \/ \E c \in Constructions : OnFirstInteraction(c)
    \/ \E c \in resumePending : ResumeResolves(c)
    \/ \E c \in DOMAIN ctxState : Close(c)

DispatchSpec == DispatchInit /\ [][DispatchNext]_vars

\* C34 as claimed. Every play call checkAlarms has to make for a second is
\* made, in the order of the list, whatever the calls before it did.
C34_DispatchFailureIsolated ==
    [][clock' # clock /\ lastCall'.ran
          => /\ Len(requests') = Len(requests) + Len(lastCall'.played)
             /\ \A j \in DOMAIN lastCall'.played :
                   Len(requests) + j \in DOMAIN requests'
                       => requests'[Len(requests) + j].preset
                              = lastCall'.played[j].sound]_vars

\* C37. Mute suppresses dispatch but not progress: a timer callback on a new
\* second while muted makes no play call and sets the cursor to that second;
\* a callback within the cursor's second makes no play call, muted or not;
\* every pass evaluates its own second alone, so a second that went by while
\* muted is not evaluated later; changing the mute evaluates and plays
\* nothing; and no second is evaluated twice.
C37_MuteSuppressesDispatchNotProgress ==
    /\ [][clock' # clock /\ isMuted /\ CurrentSecond(clock') # lastTriggeredSecond
             => /\ requests' = requests
                /\ nodes' = nodes
                /\ lastTriggeredSecond' = CurrentSecond(clock')
                /\ lastCall'.evaluated = {CurrentSecond(clock')}]_vars
    /\ [][clock' # clock /\ CurrentSecond(clock') = lastTriggeredSecond
             => /\ requests' = requests
                /\ UNCHANGED <<lastTriggeredSecond, evalCount>>]_vars
    /\ [][clock' # clock /\ lastCall'.ran
             => lastCall'.evaluated = {CurrentSecond(clock')}]_vars
    /\ [][isMuted' # isMuted
             => UNCHANGED <<requests, nodes, lastTriggeredSecond, evalCount>>]_vars
    /\ [](\A s \in DOMAIN evalCount : evalCount[s] <= 1)

\* C37 witness: midnight, at which the rules are due, was processed while
\* muted and nothing was played; the alerts were unmuted within that second
\* and the next callback, still within it, played nothing either.
C37_Witness ==
    /\ ~isMuted
    /\ requests = <<>>
    /\ Counted(CurrentSecond(DayMs)) = 1
    /\ ~lastCall.ran
    /\ lastCall.currentSecond = CurrentSecond(DayMs)
    /\ lastCall.previous = lastCall.currentSecond
    /\ TriggeredRules(alarms, SecondsSinceMidnight(currentTime)) # {}

----------------------------------------------------------------------------
(* The form and the rules added with it *)

\* Positions of the cycle slider (min 1, max 60).
SliderPositions == {1, 5}

\* Numbers entered in the minutes and the seconds field of the mark: within
\* the field's min and max, and typed below it.
MarkMinsEntered == {0 - 1, 0, 4}

MarkSecsEntered == {0, 59}

FormInit == AppIdle /\ BeeperConstructed(TRUE)

FormNext ==
    \/ \E type \in {"interval", "mark"} : type # newType /\ SetNewType(type)
    \/ \E value \in SliderPositions : value # newInterval /\ SetNewInterval(value)
    \/ \E value \in MarkMinsEntered : SetNewMarkMins(value)
    \/ \E value \in MarkSecsEntered : SetNewMarkSecs(value)
    \/ \E id \in Ids : Len(alarms) < MaxFormRules /\ AddAlarmFromForm(id, "classic")
    \/ \E id \in Ids :
          Len(alarms) < MaxFormRules /\ AddAlarm(id, "interval", 5, 0, "ding")
    \/ \E id \in Ids :
          Len(alarms) < MaxFormRules /\ AddAlarm(id, "mark", 5, 4 * 60, "pulse")

FormSpec == FormInit /\ [][FormNext]_vars

\* C31 as claimed. Rule data invariant: every rule of the list has a cycle
\* above 0 and, if it is a mark rule, a mark of at least 0 and below the cycle.
C31_RuleDataInvariant ==
    \A i \in DOMAIN alarms :
        /\ IntervalSeconds(alarms[i]) > 0
        /\ alarms[i].type = "mark"
              => /\ 0 <= MarkSecondsOf(alarms[i])
                 /\ MarkSecondsOf(alarms[i]) < IntervalSeconds(alarms[i])

----------------------------------------------------------------------------
(* Properties of the scheduler under edits (specification EditSpec) *)

\* A step of the timer callback: it alone moves the clock.
TimerStep == clock' # clock

\* C26. Same-second no-op: a checkAlarms call whose second is the cursor's
\* evaluates no rule, plays nothing and leaves the cursor, the evaluation
\* counts and the Beeper as they were.
C26_SameSecondNoOp ==
    [][TimerStep /\ CurrentSecond(clock') = lastTriggeredSecond
          => /\ UNCHANGED <<lastTriggeredSecond, evalCount, alarmTriggered>>
             /\ UNCHANGED beeperVars
             /\ ~lastCall'.ran
             /\ lastCall'.evaluated = {}
             /\ lastCall'.triggered = {}
             /\ lastCall'.played = <<>>]_vars

\* C26 witness: the last call came within the second already processed, at
\* which an enabled rule is due, and the alerts are not muted.
C26_Witness ==
    /\ ~lastCall.ran
    /\ lastCall.previous >= 0
    /\ lastCall.currentSecond = lastCall.previous
    /\ ~isMuted
    /\ TriggeredRules(alarms, SecondsSinceMidnight(currentTime)) # {}

\* C27. Once checkAlarms has been called, the cursor is the second of the
\* last call's timestamp, whatever the rule list and the mute were.
C27_CursorIsLastSecond ==
    Called => lastTriggeredSecond = CurrentSecond(currentTime)

\* C27 witness: the last call found a rule due while muted, played nothing
\* and set the cursor to its second.
C27_Witness ==
    /\ lastCall.ran
    /\ isMuted
    /\ lastCall.triggered # {}
    /\ lastCall.played = <<>>
    /\ lastCall.previous >= 0
    /\ lastTriggeredSecond = lastCall.currentSecond

\* C28. Cursor ownership: no handler other than the timer callback changes
\* the cursor, and while the clock does not go back the cursor never
\* decreases.
C28_CursorOwnership ==
    /\ [][Edit => UNCHANGED lastTriggeredSecond]_vars
    /\ [][clock' >= clock => lastTriggeredSecond' >= lastTriggeredSecond]_vars

\* C28 witness: two seconds were processed; a rule was added and disabled,
\* the volume set to 0, the alerts muted and a test beep requested.
C28_Witness ==
    /\ Cardinality(DOMAIN evalCount) >= 2
    /\ lastTriggeredSecond = CurrentSecond(currentTime)
    /\ Len(requests) = 1
    /\ globalVolume = 0
    /\ isMuted
    /\ \E i \in DOMAIN alarms : alarms[i].sound = "ding" /\ ~alarms[i].enabled

\* C29. Each pass of checkAlarms works on the rule list of its moment: the
\* rules it finds due are the enabled rules of the list that are due at its
\* second, each play call is for an enabled rule of the list, a removed rule
\* is no longer in the list, and an edit neither evaluates a second nor lets
\* one be evaluated twice.
C29_CurrentRuleList ==
    /\ [][TimerStep /\ lastCall'.ran
             => /\ lastCall'.triggered =
                     {i \in DOMAIN alarms :
                         /\ alarms[i].enabled
                         /\ Triggered(alarms[i], SecondsSinceMidnight(clock'))}
                /\ \A j \in DOMAIN lastCall'.played :
                      LET i == lastCall'.played[j].rule
                      IN  /\ i \in DOMAIN alarms
                          /\ alarms[i].enabled
                          /\ lastCall'.played[j].sound = alarms[i].sound
                /\ ~isMuted =>
                      {lastCall'.played[j].rule : j \in DOMAIN lastCall'.played}
                          = lastCall'.triggered]_vars
    /\ [][\A i \in DOMAIN alarms :
             RemoveAlarm(alarms[i].id)
                 => \A k \in DOMAIN alarms' : alarms'[k].id # alarms[i].id]_vars
    /\ [][Edit => UNCHANGED <<evalCount, lastCall>>]_vars
    /\ [](\A s \in DOMAIN evalCount : evalCount[s] <= 1)

\* C29 witness: after a first second was processed a rule was added with the
\* form, and the next pass played its sound.
C29_Witness ==
    /\ Cardinality(DOMAIN evalCount) >= 2
    /\ lastCall.ran
    /\ \E j \in DOMAIN lastCall.played : lastCall.played[j].sound = "ding"

\* C30 as claimed. A rule whose cycle is zero or negative is never found due
\* by checkAlarms.
C30_MalformedRuleNeverFires ==
    [][TimerStep
          => \A i \in lastCall'.triggered : IntervalSeconds(alarms[i]) > 0]_vars

----------------------------------------------------------------------------
(* Properties of the catch-up scheduler (specification Spec) *)

\* The distance in seconds between the last call's second and its predecessor's.
Gap == lastCall.currentSecond - lastCall.previous

\* C1. No duplicate evaluation: while every checkAlarms call got a timestamp
\* not below its predecessor's, no second has been evaluated more than once.
C1_NoDuplicateEvaluation ==
    monotone => \A s \in DOMAIN evalCount : evalCount[s] <= 1

\* C1 witness: under non-decreasing timestamps several seconds were evaluated
\* and the last call arrived within the second already processed.
C1_Witness ==
    /\ monotone
    /\ Called
    /\ Cardinality(DOMAIN evalCount) >= 2
    /\ ~lastCall.ran
    /\ lastCall.currentSecond = lastCall.previous

\* C2 as claimed. No gap within the window: a call whose second is d past its
\* predecessor's, 1 <= d <= CatchUpWindow, evaluates every second in between.
C2_NoGapWithinWindow ==
    (Called /\ lastCall.previous >= 0 /\ Gap >= 1 /\ Gap <= CatchUpWindow)
        => lastCall.evaluated = (lastCall.previous + 1) .. lastCall.currentSecond

\* C3 as claimed. Bounded staleness: a call whose second is more than
\* CatchUpWindow past its predecessor's evaluates exactly the CatchUpWindow
\* most recent seconds, and the cursor is the call's second.
C3_BoundedStaleness ==
    (Called /\ lastCall.previous >= 0 /\ Gap > CatchUpWindow)
        => /\ lastCall.evaluated =
                (lastCall.currentSecond - CatchUpWindow + 1) .. lastCall.currentSecond
           /\ lastTriggeredSecond = lastCall.currentSecond

\* C4. Startup boundary: the first call evaluates its own second alone and
\* sets the cursor to it; under non-decreasing timestamps no second before
\* the first call's is ever evaluated.
C4_StartupBoundary ==
    /\ ~Called => evalCount = <<>> /\ lastTriggeredSecond = 0 - 1
    /\ (Called /\ lastCall.previous < 0)
          => /\ lastCall.ran
             /\ lastCall.currentSecond = firstSecond
             /\ lastCall.evaluated = {firstSecond}
             /\ DOMAIN evalCount = {firstSecond}
             /\ lastTriggeredSecond = firstSecond
    /\ (Called /\ monotone) => \A s \in DOMAIN evalCount : s >= firstSecond

\* C4 witness: the first call has just run, seconds after the start.
C4_Witness ==
    /\ Called
    /\ lastCall.previous < 0
    /\ firstSecond >= CurrentSecond(StartMs) + CatchUpWindow
    /\ lastTriggeredSecond = firstSecond

\* C5. Clock discontinuity: a call whose second is below the cursor sets the
\* cursor to its second and evaluates no other second than its own.
C5_ClockDiscontinuity ==
    (Called /\ lastCall.previous >= 0 /\ lastCall.currentSecond < lastCall.previous)
        => /\ lastTriggeredSecond = lastCall.currentSecond
           /\ lastCall.evaluated \subseteq {lastCall.currentSecond}

\* C5 witness: a call arrived with a second below the cursor.
C5_Witness ==
    /\ Called
    /\ lastCall.previous >= 0
    /\ lastCall.currentSecond < lastCall.previous
    /\ lastCall.ran

\* C10. Disabled rules are never evaluated: a call triggers and plays only
\* rules enabled at that call, and the cell of a disabled rule shows no
\* countdown.
C10_DisabledNeverEvaluated ==
    /\ [](\A i \in DOMAIN alarms :
             ~alarms[i].enabled => NextCell(alarms[i]) = [text |-> "--:--"])
    /\ [][clock' > clock =>
             /\ \A i \in lastCall'.triggered : alarms[i].enabled
             /\ \A k \in DOMAIN lastCall'.played :
                    alarms[lastCall'.played[k].rule].enabled]_vars

\* C10 witness: the last call ran at a second where a disabled rule's
\* condition held, and did not trigger it.
C10_Witness ==
    /\ lastCall.ran
    /\ \E i \in DOMAIN alarms :
          /\ ~alarms[i].enabled
          /\ Triggered(alarms[i], lastCall.secondsSinceMidnight)
          /\ i \notin lastCall.triggered
    /\ lastCall.triggered # {}

\* A rule's trigger condition at second-of-day s, as section 4.1 states it.
Due(alarm, s) ==
    LET cycle == alarm.intervalMinutes * 60
    IN  IF alarm.type = "interval"
        THEN s % cycle = 0
        ELSE s % cycle = (IF alarm.markSeconds = Undefined
                          THEN 0 ELSE alarm.markSeconds[1])

\* The requests a call handed to beeper.play are exactly one for each
\* enabled rule of `rules` due at the call's second, with the rule's sound
\* and volume `volume`.
OneRequestPerDueRule(call, rules, volume) ==
    /\ \A i \in DOMAIN rules :
          Cardinality({k \in DOMAIN call.played : call.played[k].rule = i})
              = (IF rules[i].enabled /\ Due(rules[i], call.secondsSinceMidnight)
                 THEN 1 ELSE 0)
    /\ \A k \in DOMAIN call.played :
          /\ call.played[k].rule \in DOMAIN rules
          /\ call.played[k].sound = rules[call.played[k].rule].sound
          /\ call.played[k].volume = volume

\* A step of the timer callback in which checkAlarms passed its guard.
EvaluatingStep == clock' # clock /\ lastCall'.ran

C12_Ordering ==
    /\ Cardinality(lastCall.evaluated) <= 1
    /\ \A j, k \in DOMAIN lastCall.played :
          j < k => lastCall.played[j].rule < lastCall.played[k].rule

\* C12 witness: a call played the first rule of the list, then the second.
C12_Witness ==
    /\ lastCall.ran
    /\ Len(lastCall.played) = 2
    /\ lastCall.played[1].rule = 1
    /\ lastCall.played[2].rule = 2

\* C19 as claimed. Whenever a call of checkAlarms hands an alert to the
\* dispatcher, it sends one message on the channel 'alarm-triggered' to the
\* host shell.
C19_NotificationOnFire ==
    [][EvaluatingStep /\ lastCall'.played # <<>>
          => alarmTriggered' = alarmTriggered + 1]_vars

----------------------------------------------------------------------------
(* Properties of the trigger evaluator and the countdown (specification
   WalkSpec) *)

\* The second-of-day the countdown is computed for.
ShownSecond == SecondsSinceMidnight(currentTime)

\* The offset of a mark rule, 0 when absent.
Offset(alarm) == IF alarm.markSeconds = Undefined THEN 0 ELSE alarm.markSeconds[1]

\* The rules the last call handed to beeper.play.
PlayedRules == {lastCall.played[k].rule : k \in DOMAIN lastCall.played}

\* C6. Interval correctness: at every evaluated second s an enabled interval
\* rule with a positive cycle is triggered, and (the application not being
\* muted) played, iff s mod cycleSeconds = 0.
C6_IntervalCorrectness ==
    (lastCall.ran /\ ~isMuted) =>
        \A i \in DOMAIN alarms :
            (/\ alarms[i].type = "interval"
             /\ alarms[i].enabled
             /\ alarms[i].intervalMinutes > 0)
            => LET due == lastCall.secondsSinceMidnight
                              % (alarms[i].intervalMinutes * 60) = 0
               IN  /\ i \in lastCall.triggered <=> due
                   /\ i \in PlayedRules <=> due

\* C6 witness: the 5-minute interval rule is triggered at second 600.
C6_Witness ==
    /\ lastCall.ran
    /\ lastCall.secondsSinceMidnight = 600
    /\ \E i \in lastCall.triggered :
          alarms[i].type = "interval" /\ alarms[i].intervalMinutes = 5

\* C7. Mark correctness: at every evaluated second s an enabled mark rule
\* with 0 <= offset < cycleSeconds is triggered, and (the application not
\* being muted) played, iff s mod cycleSeconds = offset, an absent offset
\* being 0.
C7_MarkCorrectness ==
    (lastCall.ran /\ ~isMuted) =>
        \A i \in DOMAIN alarms :
            (/\ alarms[i].type = "mark"
             /\ alarms[i].enabled
             /\ Offset(alarms[i]) >= 0
             /\ Offset(alarms[i]) < alarms[i].intervalMinutes * 60)
            => LET due == lastCall.secondsSinceMidnight
                              % (alarms[i].intervalMinutes * 60) = Offset(alarms[i])
               IN  /\ i \in lastCall.triggered <=> due
                   /\ i \in PlayedRules <=> due

\* C7 witness: at second 240 the mark rule 240 of 300 and the mark rule
\* without an offset (cycle 120) are both triggered.
C7_Witness ==
    /\ lastCall.ran
    /\ lastCall.secondsSinceMidnight = 240
    /\ \E i \in lastCall.triggered :
          alarms[i].type = "mark" /\ alarms[i].markSeconds = Defined(240)
    /\ \E i \in lastCall.triggered :
          alarms[i].type = "mark" /\ alarms[i].markSeconds = Undefined

\* C8 as claimed. The countdown is 0 (shown as NOW) exactly when the rule is
\* triggered at the second shown.
C8_ZeroIffFires ==
    lastCall.ran =>
        \A i \in DOMAIN alarms :
            alarms[i].enabled
            => (GetNextTrigger(alarms[i]) = [text |-> "NOW"]
                    <=> i \in lastCall.triggered)

\* The forward distance from position pos to position target in a cycle.
ForwardDistance(pos, target, cycle) == (target - pos) % cycle

\* C9 as claimed. The countdown is the forward distance to the target
\* position of the cycle: position 0 for an interval rule, the offset for a
\* mark rule.
C9_ForwardDistance ==
    \A i \in DOMAIN alarms :
        LET cycle == alarms[i].intervalMinutes * 60
            wait == SecondsToWait(alarms[i], ShownSecond)
        IN  /\ wait >= 0
            /\ alarms[i].type = "interval"
                  => wait = (cycle - (ShownSecond % cycle)) % cycle
            /\ alarms[i].type = "mark"
                  => wait = ForwardDistance(ShownSecond % cycle,
                                            Offset(alarms[i]), cycle)

\* C38 as claimed. The countdown agrees with the evaluator: with n the
\* seconds getNextTrigger counts at the second shown, checkAlarms triggers
\* the rule n seconds later and at no second from the one shown up to then.
C38_CountdownAgreesWithEvaluator ==
    \A i \in DOMAIN alarms :
        LET n == SecondsToWait(alarms[i], ShownSecond)
        IN  /\ Triggered(alarms[i], ShownSecond + n)
            /\ \A s \in ShownSecond .. (ShownSecond + n - 1) :
                  ~Triggered(alarms[i], s)

----------------------------------------------------------------------------
(* Properties of the dispatcher's tones (specification BeeperSpec) *)

NodesOf(r) == {n \in nodes : n.req = r}

\* What is heard of request r: its tones, each with the value of the gain
\* node it goes through.
Rendering(r) ==
    {[k |-> n.k, freq |-> n.freq, duration |-> n.duration, type |-> n.type,
      volume |-> n.volume, delay |-> n.delay, gainValue |-> n.gainValue] :
        n \in NodesOf(r)}

\* C13. Suspended-device drop: of a request for a tone that found the device
\* suspended, no oscillator is ever started and no callback is registered,
\* whatever the device does later.
C13_SuspendedDeviceDrop ==
    \A r \in DOMAIN requests :
        requests[r].device = "suspended" /\ requests[r].preset # "voice"
            => /\ NodesOf(r) = {}
               /\ \A t \in timers : t.req # r

\* C13 witness: a request found the device suspended, and the device has
\* resumed since and runs with its keepalive.
C13_Witness ==
    /\ \E r \in DOMAIN requests :
          requests[r].device = "suspended" /\ NodesOf(r) = {}
    /\ audioCtx # 0
    /\ ctxState[audioCtx] = "running"
    /\ keepaliveSrc = audioCtx
    /\ resumePending = {}

\* C14 as claimed. Every oscillator of a delayed segment was started on a
\* device that was running when its callback fired.
C14_DelayedSegmentsNeedRunningDevice ==
    \A n \in nodes : n.delay > 0 => n.ctxWas = "running"

\* C17 as claimed. No call of play propagates an error to its caller.
C17_FireAndForget ==
    \A r \in DOMAIN requests : ~requests[r].threw

C36_FirstInteractionOnce ==
    [][(\E c \in Constructions : OnFirstInteraction(c)) => ~listening']_vars

Immediate(preset) ==
    {k \in DOMAIN Segments(preset) : Segments(preset)[k].delay = 0}

\* C24. Keepalive start conditions: the keepalive oscillator is started
\* only on the Beeper's device and only while that device is running; and a
\* call of play that started it did so on a running device, after it had
\* started the oscillators of all its immediate segments.
C24_KeepaliveStartConditions ==
    /\ [][Len(requests') = Len(requests) + 1
             => LET made == requests'[Len(requests')]
                    w == PlayTonal(World, Len(requests'), made.preset, made.volume,
                                   IF made.threw THEN "throws" ELSE made.device)
                IN  w.keepaliveAfter >= 0
                      => /\ StateOf(w) = "running"
                         /\ keepaliveSrc' = audioCtx'
                         /\ w.keepaliveAfter =
                                Cardinality(nodes) + Cardinality(Immediate(made.preset))
                         /\ Immediate(made.preset) =
                                {n.k : n \in {m \in nodes' : m.req = Len(requests')}}]_vars
    /\ [][keepaliveSrc' # 0 /\ keepaliveSrc' # keepaliveSrc
             => /\ keepaliveSrc' = audioCtx'
                /\ ctxState'[audioCtx'] = "running"]_vars

\* C24 witness: a call of play for 'ding' started the keepalive, after its
\* two tones; the platform has suspended the device since.
C24_Witness ==
    /\ listening
    /\ Len(requests) = 1
    /\ requests[1].preset = "ding" /\ requests[1].device = "running"
    /\ Cardinality(NodesOf(1)) = 2
    /\ keepaliveSrc = audioCtx
    /\ ctxState[audioCtx] = "suspended"
    /\ resumePending = {}

\* C25. Every oscillator of a request for a tone, of an immediate or of a
\* delayed segment, goes through a gain node whose gain is the volume that
\* call of play was given: 0 if that was 0, whatever a later call was given.
C25_GainIsRequestVolume ==
    \A n \in nodes :
        requests[n.req].preset # "voice"
            => /\ n.gainValue = requests[n.req].volume
               /\ requests[n.req].volume = 0 => n.gainValue = 0

\* C25 witness: a request at volume 0 has emitted a delayed segment, and a
\* request at another volume has emitted a segment too.
C25_Witness ==
    /\ \E n \in nodes :
          n.delay > 0 /\ requests[n.req].volume = 0 /\ n.gainValue = 0
    /\ \E n \in nodes : requests[n.req].volume > 0 /\ n.gainValue > 0

\* Request r was made on a running device and all its segments were emitted.
Rendered(r) ==
    /\ requests[r].device = "running"
    /\ Cardinality(NodesOf(r)) = Len(Segments(requests[r].preset))

\* C20. Dispatch determinism: two requests with the same preset and volume,
\* both rendered in full on a running device, have the same tones through
\* gains of the same value, and share no gain node.
C20_DispatchDeterminism ==
    \A r1, r2 \in DOMAIN requests :
        /\ r1 # r2
        /\ requests[r1].preset = requests[r2].preset
        /\ requests[r1].volume = requests[r2].volume
        /\ Rendered(r1) /\ Rendered(r2)
        => /\ Rendering(r1) = Rendering(r2)
           /\ {n.gain : n \in NodesOf(r1)} \cap {n.gain : n \in NodesOf(r2)} = {}

\* C20 witness: two 'alarm' requests at the same volume, both rendered in
\* full, the second while a callback of the first was pending or later.
C20_Witness ==
    /\ Len(requests) = 2
    /\ requests[1].preset = "alarm" /\ requests[2].preset = "alarm"
    /\ requests[1].volume = requests[2].volume
    /\ Rendered(1) /\ Rendered(2)
    /\ Cardinality(Rendering(1)) = 3

----------------------------------------------------------------------------
(* Properties of the dispatcher's speech (specification SpeechSpec) *)

\* The retry callbacks of request r that are pending.
RetryTimers(r) == {t \in timers : t.kind = "retry" /\ t.req = r}

\* The speak calls the retry callback of request r made.
Retries(r) == {i \in DOMAIN submitted : submitted[i].retryOf = r}

\* C15 as claimed. A speech request that cancelled a stuck engine gets
\* exactly one retry, pending for the delay or made, and the retry submits
\* the request to the engine: its text at its boosted volume.
C15_StuckSpeechRecovery ==
    \A r \in DOMAIN requests :
        requests[r].cancelled
            => /\ Cardinality(RetryTimers(r)) + Cardinality(Retries(r)) = 1
               /\ \A t \in RetryTimers(r) : t.due <= dateNow + 50
               /\ \A i \in Retries(r) :
                     /\ submitted[i].utterance.text = "Voice alert"
                     /\ submitted[i].utterance.volume =
                            (IF requests[r].volume * 2 > 100
                             THEN 100 ELSE requests[r].volume * 2)

\* C32 as claimed. Every speech request's own utterance is submitted to the
\* engine once: a retry submits the utterance of the request that scheduled
\* it, no utterance is submitted twice, and a request that cancelled and
\* whose retry has run has had its utterance submitted.
C32_OwnUtteranceOnce ==
    /\ \A i \in DOMAIN submitted :
          submitted[i].retryOf # 0
              => submitted[i].utterance.req = submitted[i].retryOf
    /\ \A i, j \in DOMAIN submitted :
          i # j => submitted[i].utterance.req # submitted[j].utterance.req
    /\ \A r \in DOMAIN requests :
          requests[r].cancelled /\ RetryTimers(r) = {}
              => \E i \in DOMAIN submitted : submitted[i].utterance.req = r

\* C33 as claimed, over the requests of a run: when the engine still holds
\* the first request's utterance, and the last request of the run was made
\* more than 12 s after that utterance was submitted, some request has
\* cancelled the engine and scheduled a retry.
C33_HungEngineIsReset ==
    ( /\ speechAvailable
      /\ Len(requests) = MaxSpeechRequests
      /\ engineQueue # <<>>
      /\ engineQueue[1].req = 1
      /\ lastSpeakCallTime - submitted[1].at > StuckThresholdMs )
        => \E r \in DOMAIN requests : requests[r].cancelled

\* C22 as claimed. Whenever speak submits its utterance to the speech
\* engine, the output device is running.
C22_DeviceRunningBeforeSpeech ==
    speechAvailable =>
        \A r \in DOMAIN requests :
            requests[r].preset = "voice" /\ ~requests[r].threw
              /\ ~requests[r].cancelled
                => requests[r].device = "running"

\* A step that is a call of speak with the speech engine available.
SpeakStep == Len(requests') > Len(requests) /\ speechAvailable

\* C16. The speech engine is never unconditionally reset: a call of speak
\* cancels the engine's utterances if and only if the engine is speaking and
\* more than 12 s have passed since the last call; in every other case it
\* appends its utterance to those the engine holds; and no other step
\* removes an utterance but the engine finishing one.
C16_NoUnconditionalReset ==
    /\ [][SpeakStep =>
             LET busy == engineQueue # <<>>
                 late == dateNow - lastSpeakCallTime > 12000
             IN  IF busy /\ late
                 THEN requests'[Len(requests')].cancelled /\ engineQueue' = <<>>
                 ELSE /\ ~requests'[Len(requests')].cancelled
                      /\ engineQueue' = Append(engineQueue, currentUtterance'[1])]_vars
    /\ [][~SpeakStep =>
             \/ engineQueue' = engineQueue
             \/ engineQueue # <<>> /\ engineQueue' = Tail(engineQueue)
             \/ /\ currentUtterance # Undefined
                /\ engineQueue' = Append(engineQueue, currentUtterance[1])]_vars

\* C16 witness: speak was called while the engine was speaking, within the
\* threshold, and the engine holds both utterances; nothing was cancelled.
C16_Witness ==
    /\ Len(engineQueue) = 2
    /\ engineQueue[1].req # engineQueue[2].req
    /\ \A r \in DOMAIN requests : ~requests[r].cancelled

\* C18. Speech fallback: without a speech engine, a 'voice' request on a
\* running device renders the 'ding' preset once, through a gain of the
\* request's volume, on any other device nothing; the speech path is never
\* entered.
C18_SpeechFallback ==
    ~speechAvailable =>
        /\ engineQueue = <<>> /\ submitted = <<>>
        /\ currentUtterance = Undefined
        /\ \A t \in timers : t.kind # "retry"
        /\ \A r \in DOMAIN requests :
              requests[r].preset = "voice" =>
                  Rendering(r) =
                      IF requests[r].device = "running"
                      THEN {[k |-> k, freq |-> Segments("ding")[k].freq,
                             duration |-> Segments("ding")[k].duration,
                             type |-> Segments("ding")[k].type,
                             volume |-> Segments("ding")[k].volume,
                             delay |-> 0,
                             gainValue |-> requests[r].volume] :
                               k \in DOMAIN Segments("ding")}
                      ELSE {}

\* C18 witness: without a speech engine, a 'voice' request has rendered two
\* tones.
C18_Witness ==
    /\ ~speechAvailable
    /\ \E r \in DOMAIN requests :
          /\ requests[r].preset = "voice"
          /\ requests[r].device = "running"
          /\ Cardinality(NodesOf(r)) = 2

====
